---- MODULE Spec2Model ----
(***************************************************************************)
(* State-machine model of the ChatWait streaming session core:             *)
(*   StreamingService.create_stream / cleanup_abandoned_connections        *)
(*   (services/streaming_service.py) driving                               *)
(*   ChatAgentService.run_streaming (services/chat_agent.py).              *)
(*                                                                         *)
(* Both functions are Python async generators.  A step of the model is the *)
(* code that runs between two suspension points of the event loop: the     *)
(* await of the next runner event, and the yield of a frame to the         *)
(* consumer.  Text is a sequence of one-character strings, so that         *)
(* str.strip() and concatenation are computed, not assumed.                *)
(***************************************************************************)
EXTENDS Integers, Sequences, FiniteSets, TLC

\* ------------------------------------------------------------------ bounds
\* Number of streaming attempts (requests to /chat/streaming).
NumStreams == 2
\* Number of events the model runner delivers, over all streams together,
\* before every run must complete or fail.
MaxEvents == 2
\* Number of sweeps whose result the caller keeps.
MaxSweeps == 2
\* Length of the texts given to the frame encoder.
MaxTextLen == 2
\* Direct calls of get_or_create_session.
MaxCalls == 3
\* Requests to POST /chat/wait.
MaxWaits == 2
\* Calls of get_connection_status.
MaxLookups == 1

\* --------------------------------------------------------- program constants
\* cleanup_abandoned_connections(timeout_seconds: int = 300)
DefaultTimeout == 300

None == "<None>"

Streams == 1 .. NumStreams

\* context_id values a request carries: absent, or a conversation identifier.
Contexts == {None, "c1"}

\* last_token_index values a request carries (the endpoint takes any int).
Offsets == {0, 3}

\* Readings of the event-loop clock (seconds) while streams run: the start,
\* and a reading more than the default timeout later.
Times == {0, DefaultTimeout + 1}

\* Sweep in isolation: creation times of the entries the registry holds,
\* and clock readings at which it is swept (ages 0, 1, 299, 300 and 301).
CreationTimes == {0, 1}
SweepTimes == {0, 1, DefaultTimeout, DefaultTimeout + 1}

\* The values create_stream writes to an entry's status.
Statuses == {"active", "completed", "error"}

\* timeout_seconds values a caller of the sweep passes.
Timeouts == {0, DefaultTimeout}

\* Field(..., min_length=1, max_length=10000) of the request models' message
MaxMessageLength == 10000

\* last_token_index values a request to GET /chat/streaming carries: the
\* query parameter is declared `last_token_index: int = 0`.
RequestOffsets == {-1, 0}

\* ------------------------------------------------------------------- text
Hi == <<"H", "i">>
There == <<" ", "t", "h", "e", "r", "e">>
Blank == <<" ">>
Empty == <<>>

\* The text of a request, written as the tests write it ("a" * 10001): a
\* sequence of runs, each one character repeated n >= 1 times.
Run(ch, n) == [ch |-> ch, n |-> n]

\* message values a request to GET /chat/streaming carries: empty, only
\* whitespace, text with whitespace around it, and text one character longer
\* than the request models allow.
EmptyMessage == <<>>
BlankMessage == <<Run(" ", 2), Run("\t", 1)>>
PaddedHi == <<Run(" ", 1), Run("H", 1), Run("i", 1), Run(" ", 2)>>
Oversized == <<Run("a", MaxMessageLength + 1)>>
Messages == {EmptyMessage, BlankMessage, PaddedHi, Oversized}

\* A delta that is not a str (event.data.delta is None).
NonText == <<"<delta:None>">>

\* Events of stream_result.stream_events(): a raw_response_event carrying a
\* delta, or any other event.
RunnerEvents ==
    {[type |-> "raw_response_event", delta |-> d] :
        d \in {Hi, There, Blank, Empty, NonText}}
    \cup {[type |-> "run_item_stream_event"]}

IsSpace(ch) == ch \in {" ", "\n", "\t", "\r"}

RECURSIVE LStrip(_)
LStrip(t) ==
    IF t = <<>> THEN <<>>
    ELSE IF IsSpace(Head(t)) THEN LStrip(Tail(t)) ELSE t

RECURSIVE RStrip(_)
RStrip(t) ==
    IF t = <<>> THEN <<>>
    ELSE IF IsSpace(t[Len(t)]) THEN RStrip(SubSeq(t, 1, Len(t) - 1)) ELSE t

\* str.strip()
Strip(t) == RStrip(LStrip(t))

\* Variant: the test without strip(), `if token:`.
IsNonEmptyTokenUnstripped(token) == token # <<>>

\* chat_agent.py:190  `if token.strip():`
IsNonEmptyToken(token) == Strip(token) # <<>>

\* len(message)
RECURSIVE MessageLen(_)
MessageLen(m) == IF m = <<>> THEN 0 ELSE Head(m).n + MessageLen(Tail(m))

RECURSIVE LStripMessage(_)
LStripMessage(m) ==
    IF m = <<>> THEN <<>>
    ELSE IF IsSpace(Head(m).ch) THEN LStripMessage(Tail(m)) ELSE m

RECURSIVE RStripMessage(_)
RStripMessage(m) ==
    IF m = <<>> THEN <<>>
    ELSE IF IsSpace(m[Len(m)].ch)
         THEN RStripMessage(SubSeq(m, 1, Len(m) - 1)) ELSE m

\* message.strip()
StripMessage(m) == RStripMessage(LStripMessage(m))

\* Variant: the test without strip(), `if not message:`.
IsEmptyMessageUnstripped(m) == m = <<>>

\* chat.py:110  `if not message or not message.strip():`
IsEmptyMessage(m) == m = <<>> \/ StripMessage(m) = <<>>

\* Variant: the index advances by two.
NextTokenIndexSkipping(i) == i + 2

\* chat_agent.py:197  `current_token_index += 1`
NextTokenIndex(i) == i + 1

\* `context_id or "default"`
OrDefault(c) == IF c = None \/ c = "" THEN "default" ELSE c

\* ------------------------------------------------------------- exceptions
\* str(e) of the exceptions the code can meet.
RunnerDetail == "RunnerError: upstream model call failed"
StoreDetail == "OperationalError: unable to open database file"
KeyErrorDetail == "KeyError: connection_id"
ValidationDetail == "ValidationError: token_index greater than or equal to 0"

ExceptionDetails == {RunnerDetail, StoreDetail, KeyErrorDetail, ValidationDetail}

\* ---------------------------------------------------------------- envelopes
\* StreamTokenEvent(...).model_dump()
StreamTokenEvent(token, token_index, context_id) ==
    [token |-> token, token_index |-> token_index,
     context_id |-> context_id, event_type |-> "token"]

\* Variant: the End envelope built with the default of
\* event.get("final_output", ""), the text left out.
StreamEndEventWithoutOutput(context_id, final_output) ==
    [context_id |-> context_id, event_type |-> "end", final_output |-> <<>>]

\* StreamEndEvent(...).model_dump()
StreamEndEvent(context_id, final_output) ==
    [context_id |-> context_id, event_type |-> "end",
     final_output |-> final_output]

\* StreamErrorEvent(...).model_dump()
StreamErrorEvent(context_id, error_code, message) ==
    [context_id |-> context_id, event_type |-> "error",
     error_code |-> error_code, message |-> message]

\* Field(..., ge=0) of StreamTokenEvent.token_index
TokenIndexValid(i) == i >= 0

\* stream_result.final_output: the text the run produced, i.e. the text
\* deltas in order.
RECURSIVE FinalOutput(_)
FinalOutput(evs) ==
    IF evs = <<>> THEN <<>>
    ELSE LET e == Head(evs) IN
         IF e.type = "raw_response_event" /\ e.delta # NonText
         THEN e.delta \o FinalOutput(Tail(evs))
         ELSE FinalOutput(Tail(evs))

\* ----------------------------------------------------------------- registry
\* f"{context_id or 'default'}-{asyncio.get_event_loop().time()}"
\* Two requests that read the same clock value (the monotonic clock has a
\* finite resolution) and carry the same context_id get the same key.
ConnectionId(context_id, now) == <<OrDefault(context_id), now>>

NewConnection(context_id, last_token_index, now) ==
    [context_id |-> context_id, last_token_index |-> last_token_index,
     created_at |-> now, status |-> "active"]

\* self.active_connections[connection_id] = {...}
Insert(conns, id, entry) ==
    [k \in DOMAIN conns \cup {id} |-> IF k = id THEN entry ELSE conns[k]]

\* Variant: the entry is counted but not deleted.
DeleteNothing(conns, id) == conns

\* del self.active_connections[connection_id]
Delete(conns, id) == [k \in DOMAIN conns \ {id} |-> conns[k]]

\* Variant: no cleanup when the generator finishes.
FinallyWithoutCleanup(conns, id) == conns

\* finally: if connection_id in self.active_connections: del ...
Finally(conns, id) == IF id \in DOMAIN conns THEN Delete(conns, id) ELSE conns

\* Variant: an entry exactly timeout_seconds old counts as abandoned.
IsAbandonedAtTimeout(conn_data, current_time, timeout_seconds) ==
    /\ conn_data.status = "active"
    /\ (current_time - conn_data.created_at) >= timeout_seconds

\* The condition of the sweep's `if`.
IsAbandoned(conn_data, current_time, timeout_seconds) ==
    /\ conn_data.status = "active"
    /\ (current_time - conn_data.created_at) > timeout_seconds

\* for conn_id, conn_data in list(self.active_connections.items()): ...
RECURSIVE CleanupLoop(_, _, _, _, _)
CleanupLoop(conns, todo, current_time, timeout_seconds, cleaned_count) ==
    IF todo = {} THEN [connections |-> conns, cleaned_count |-> cleaned_count]
    ELSE LET conn_id == CHOOSE k \in todo : TRUE IN
         IF IsAbandoned(conns[conn_id], current_time, timeout_seconds)
         THEN CleanupLoop(Delete(conns, conn_id), todo \ {conn_id},
                          current_time, timeout_seconds, cleaned_count + 1)
         ELSE CleanupLoop(conns, todo \ {conn_id},
                          current_time, timeout_seconds, cleaned_count)

CleanupAbandoned(conns, current_time, timeout_seconds) ==
    CleanupLoop(conns, DOMAIN conns, current_time, timeout_seconds, 0)

\* -------------------------------------------------------------------- state
VARIABLES
    active_connections,   \* StreamingService.active_connections
    clock,                \* asyncio.get_event_loop().time()
    pc,                   \* where each stream's create_stream generator stands
    context_id,           \* create_stream argument
    last_token_index,     \* create_stream argument (the resume offset)
    connection_id,        \* create_stream local
    current_token_index,  \* run_streaming local
    events,               \* runner events delivered to run_streaming so far
    out,                  \* envelopes handed to the consumer (the transport)
    resume_of,            \* the stream a reconnecting client resumes, if any
    cleanup_log,          \* arguments and result of the sweeps whose caller kept them
    delivered,            \* number of runner events delivered so far
    message,              \* chat_streaming parameter (the text of the request)
    sse_data,             \* _format_sse_event argument
    sse_frame,            \* _format_sse_event result
    sessions,             \* LLMService._sessions
    created,              \* the SQLiteSession objects constructed so far
    session_log,          \* direct calls of get_or_create_session, with results
    wait_log,             \* requests to POST /chat/wait, with their responses
    status_log            \* calls of get_connection_status, with results

vars == <<active_connections, clock, pc, context_id, last_token_index,
          connection_id, current_token_index, events, out, resume_of,
          cleanup_log, delivered, message, sse_data, sse_frame,
          sessions, created, session_log, wait_log, status_log>>

stream_vars == <<pc, context_id, last_token_index, connection_id,
                 current_token_index, events, out, resume_of, message>>

\* The session store of LLMService.
store_vars == <<sessions, created>>

\* The records of the calls that do not belong to a stream.
log_vars == <<sse_data, sse_frame, session_log, wait_log, status_log>>

call_vars == <<store_vars, log_vars>>

\* Nothing has been called yet.
NoCall == <<>>

\* LLMService.__init__: `self._sessions = {}`; no call has been recorded.
StoreIdle ==
    /\ sessions = <<>>
    /\ created = <<>>
    /\ session_log = <<>>
    /\ wait_log = <<>>
    /\ status_log = <<>>

CallsIdle ==
    /\ sse_data = NoCall
    /\ sse_frame = NoCall
    /\ StoreIdle

\* connection_id before create_stream has assigned it.
NoConnection == <<>>

\* resume_of of a stream that is not a reconnection.
NoStream == 0

\* Suspension points of create_stream at which the consumer holds a frame.
YieldPoints == {"yield_token", "yield_end", "yield_error", "yield_service_error"}

\* States in which the generator is suspended (begun and not finished).
InFlight == YieldPoints \cup {"await_event"}

Init ==
    /\ active_connections = <<>>
    /\ clock = 0
    /\ pc = [s \in Streams |-> "idle"]
    /\ context_id = [s \in Streams |-> None]
    /\ last_token_index = [s \in Streams |-> 0]
    /\ connection_id = [s \in Streams |-> NoConnection]
    /\ current_token_index = [s \in Streams |-> 0]
    /\ events = [s \in Streams |-> <<>>]
    /\ out = [s \in Streams |-> <<>>]
    /\ resume_of = [s \in Streams |-> NoStream]
    /\ cleanup_log = <<>>
    /\ delivered = 0
    /\ message = [s \in Streams |-> EmptyMessage]
    /\ CallsIdle


\* ------------------------------------------------------------------ helpers
\* self.active_connections[connection_id]["last_token_index"] = i
\* (the caller has established that the key is present)
SetLastTokenIndex(conns, id, i) == [conns EXCEPT ![id].last_token_index = i]

\* self.active_connections[connection_id]["status"] = st
SetStatus(conns, id, st) == [conns EXCEPT ![id].status = st]

Emit(s, envelope) == out' = [out EXCEPT ![s] = Append(@, envelope)]

Goto(s, label) == pc' = [pc EXCEPT ![s] = label]

\* create_stream's `except Exception as e:` up to its yield.
ServiceError(s, detail) ==
    /\ Emit(s, StreamErrorEvent(context_id[s], "STREAMING_SERVICE_ERROR", detail))
    /\ Goto(s, "yield_service_error")

\* ------------------------------------------------------------ session store
\* The value get_or_create_session returns in stateless mode (None).
NoSession == 0

\* SQLiteSession(session_id): a new object, told apart from every other one by
\* its position in the order of construction.
CreateSession(made) == Len(made) + 1

\* The outcome of get_or_create_session(session_id) when nothing raises: the
\* store, the objects constructed and the value returned.
StoreResult(sess, made, session) ==
    [sessions |-> sess, created |-> made, session |-> session]

\* Variant: the cache is not consulted.
GetOrCreateSessionUncached(sess, made, session_id) ==
    IF session_id = None
    THEN StoreResult(sess, made, NoSession)
    ELSE StoreResult(Insert(sess, session_id, CreateSession(made)),
                     Append(made, session_id), CreateSession(made))

\* llm_service.get_or_create_session(session_id)
GetOrCreateSessionOf(sess, made, session_id) ==
    IF session_id = None
    THEN StoreResult(sess, made, NoSession)
    ELSE IF session_id \in DOMAIN sess
    THEN StoreResult(sess, made, sess[session_id])
    ELSE StoreResult(Insert(sess, session_id, CreateSession(made)),
                     Append(made, session_id), CreateSession(made))

\* The calls in which SQLiteSession(session_id) is reached and so may raise.
ReachesCreateSession(sess, session_id) ==
    /\ session_id # None
    /\ session_id \notin DOMAIN sess

\* ------------------------------------------------------------------ actions
\* The first __anext__ of create_stream: registers the connection, then
\* run_streaming runs up to its first await of a runner event.
Register(s, c, r, prev) ==
    /\ LET id == ConnectionId(c, clock) IN
        /\ connection_id' = [connection_id EXCEPT ![s] = id]
        /\ active_connections' =
               Insert(active_connections, id, NewConnection(c, r, clock))
    /\ context_id' = [context_id EXCEPT ![s] = c]
    /\ last_token_index' = [last_token_index EXCEPT ![s] = r]
    /\ resume_of' = [resume_of EXCEPT ![s] = prev]
    /\ current_token_index' = [current_token_index EXCEPT ![s] = r]
    /\ \/ /\ LET got == GetOrCreateSessionOf(sessions, created, c) IN
                /\ sessions' = got.sessions
                /\ created' = got.created
          /\ Goto(s, "await_event")
          /\ UNCHANGED out
       \/ \* llm_service.get_or_create_session(context_id) raises
          /\ ReachesCreateSession(sessions, c)
          /\ Emit(s, StreamErrorEvent(c, "STREAMING_ERROR", StoreDetail))
          /\ Goto(s, "yield_error")
          /\ UNCHANGED store_vars
    /\ UNCHANGED <<clock, events, cleanup_log, delivered, message, log_vars>>

\* Requests are numbered in the order in which they arrive.
IsNextRequest(s) ==
    /\ pc[s] = "idle"
    /\ \A q \in Streams : q < s => pc[q] # "idle"

\* create_stream called with arguments that passed validation upstream.
Begin(s, c, r, prev) ==
    /\ IsNextRequest(s)
    /\ Register(s, c, r, prev)

StartStream(s) ==
    \E c \in Contexts, r \in Offsets : Begin(s, c, r, NoStream)

TokensOf(envs) == SelectSeq(envs, LAMBDA e : e.event_type = "token")

\* A client that dropped stream prev after receiving Tokens asks again for
\* the same conversation, passing the index of the last Token it received.
Reconnect(s) ==
    \E prev \in Streams :
        /\ pc[prev] = "closed"
        /\ TokensOf(out[prev]) # <<>>
        /\ \A q \in Streams : resume_of[q] # prev
        /\ LET got == TokensOf(out[prev]) IN
               Begin(s, context_id[prev], got[Len(got)].token_index, prev)

\* The runner delivers one event; the loop body of run_streaming handles it
\* and, for a token, create_stream builds the frame and yields it.
RunnerEvent(s) ==
    \E e \in RunnerEvents :
        /\ pc[s] = "await_event"
        /\ delivered < MaxEvents
        /\ delivered' = delivered + 1
        /\ events' = [events EXCEPT ![s] = Append(@, e)]
        /\ IF /\ e.type = "raw_response_event"
              /\ e.delta # NonText
              /\ IsNonEmptyToken(e.delta)
           THEN IF TokenIndexValid(current_token_index[s])
                THEN /\ Emit(s, StreamTokenEvent(e.delta, current_token_index[s],
                                                 OrDefault(context_id[s])))
                     /\ Goto(s, "yield_token")
                ELSE ServiceError(s, ValidationDetail)
           ELSE UNCHANGED <<out, pc>>
        /\ UNCHANGED <<active_connections, clock, context_id, last_token_index,
                       connection_id, current_token_index, resume_of,
                       cleanup_log, message, call_vars>>

\* stream_events() is exhausted: run_streaming yields the end event.
RunnerComplete(s) ==
    /\ pc[s] = "await_event"
    /\ Emit(s, StreamEndEvent(OrDefault(context_id[s]), FinalOutput(events[s])))
    /\ Goto(s, "yield_end")
    /\ UNCHANGED <<active_connections, clock, context_id, last_token_index,
                   connection_id, current_token_index, events, resume_of,
                   cleanup_log, delivered, message, call_vars>>

\* stream_events() raises: run_streaming's `except Exception` yields the
\* error event.
RunnerFail(s) ==
    /\ pc[s] = "await_event"
    /\ Emit(s, StreamErrorEvent(context_id[s], "STREAMING_ERROR", RunnerDetail))
    /\ Goto(s, "yield_error")
    /\ UNCHANGED <<active_connections, clock, context_id, last_token_index,
                   connection_id, current_token_index, events, resume_of,
                   cleanup_log, delivered, message, call_vars>>

\* Variant: a generator that raises or is closed leaves without running the
\* finally block.
FinishKeepingEntry(s, label) ==
    /\ UNCHANGED active_connections
    /\ Goto(s, label)
    /\ events' = [events EXCEPT ![s] = <<>>]
    /\ current_token_index' = [current_token_index EXCEPT ![s] = 0]

\* The generator is finished (returned, raised or was closed): the finally
\* block has run and the frames of both generators, with their locals, are
\* gone.
Finish(s, label) ==
    /\ active_connections' = Finally(active_connections, connection_id[s])
    /\ Goto(s, label)
    /\ events' = [events EXCEPT ![s] = <<>>]
    /\ current_token_index' = [current_token_index EXCEPT ![s] = 0]

\* Variant: the status is assigned and the entry is left in the registry.
FinishMarkedKeepingEntry(s, st) ==
    /\ active_connections' = SetStatus(active_connections, connection_id[s], st)
    /\ Goto(s, "done")
    /\ events' = [events EXCEPT ![s] = <<>>]
    /\ current_token_index' = [current_token_index EXCEPT ![s] = 0]

\* As Finish, after `self.active_connections[connection_id]["status"] = st`.
FinishMarked(s, st) ==
    /\ active_connections' =
           Finally(SetStatus(active_connections, connection_id[s], st),
                   connection_id[s])
    /\ Goto(s, "done")
    /\ events' = [events EXCEPT ![s] = <<>>]
    /\ current_token_index' = [current_token_index EXCEPT ![s] = 0]

\* The consumer asks for the envelope after a Token.
ResumeAfterToken(s) ==
    /\ pc[s] = "yield_token"
    /\ IF connection_id[s] \in DOMAIN active_connections
       THEN /\ active_connections' =
                   SetLastTokenIndex(active_connections, connection_id[s],
                                     out[s][Len(out[s])].token_index)
            /\ current_token_index' =
                   [current_token_index EXCEPT ![s] = NextTokenIndex(@)]
            /\ Goto(s, "await_event")
            /\ UNCHANGED out
       ELSE /\ ServiceError(s, KeyErrorDetail)
            /\ UNCHANGED <<active_connections, current_token_index>>
    /\ UNCHANGED <<clock, context_id, last_token_index, connection_id, events,
                   resume_of, cleanup_log, delivered, message, call_vars>>

\* The consumer asks for the envelope after End or after the runner's Error:
\* the status is marked, run_streaming returns, the finally block runs.
ResumeAfterTerminal(s, label, st) ==
    /\ pc[s] = label
    /\ IF connection_id[s] \in DOMAIN active_connections
       THEN /\ FinishMarked(s, st)
            /\ UNCHANGED out
       ELSE /\ ServiceError(s, KeyErrorDetail)
            /\ UNCHANGED <<active_connections, events, current_token_index>>
    /\ UNCHANGED <<clock, context_id, last_token_index, connection_id,
                   resume_of, cleanup_log, delivered, message, call_vars>>

ResumeAfterEnd(s) == ResumeAfterTerminal(s, "yield_end", "completed")

ResumeAfterError(s) == ResumeAfterTerminal(s, "yield_error", "error")

\* The consumer asks for the envelope after the service's own Error: the
\* rest of the except block runs, then the finally block.
ResumeAfterServiceError(s) ==
    /\ pc[s] = "yield_service_error"
    /\ IF connection_id[s] \in DOMAIN active_connections
       THEN FinishMarked(s, "error")
       ELSE \* KeyError inside the except block leaves the generator
            Finish(s, "raised")
    /\ UNCHANGED <<clock, context_id, last_token_index, connection_id, out,
                   resume_of, cleanup_log, delivered, message, call_vars>>

\* The consumer stops reading (client disconnect, cancellation, aclose):
\* GeneratorExit / CancelledError are not Exceptions, only finally runs.
Abandon(s) ==
    /\ pc[s] \in InFlight
    /\ Finish(s, "closed")
    /\ UNCHANGED <<clock, context_id, last_token_index, connection_id, out,
                   resume_of, cleanup_log, delivered, message, call_vars>>

\* cleanup_abandoned_connections(timeout_seconds); the caller either keeps
\* the returned count (with the arguments of the call) or discards it.
Cleanup(keep_result) ==
    \E timeout_seconds \in Timeouts :
        LET res == CleanupAbandoned(active_connections, clock, timeout_seconds) IN
            /\ keep_result => Len(cleanup_log) < MaxSweeps
            /\ active_connections' = res.connections
            /\ cleanup_log' =
                   IF keep_result
                   THEN Append(cleanup_log,
                               [timeout_seconds |-> timeout_seconds,
                                current_time |-> clock,
                                cleaned_count |-> res.cleaned_count])
                   ELSE cleanup_log
            /\ UNCHANGED <<clock, stream_vars, delivered, call_vars>>

\* The event-loop clock advances to a later reading.
Advance(readings) ==
    \E t \in readings :
        /\ t > clock
        /\ clock' = t
        /\ UNCHANGED <<active_connections, stream_vars, cleanup_log, delivered,
                       call_vars>>

Next ==
    \/ \E s \in Streams : StartStream(s)
    \/ \E s \in Streams : Reconnect(s)
    \/ \E s \in Streams : RunnerEvent(s)
    \/ \E s \in Streams : RunnerComplete(s)
    \/ \E s \in Streams : RunnerFail(s)
    \/ \E s \in Streams : ResumeAfterToken(s)
    \/ \E s \in Streams : ResumeAfterEnd(s)
    \/ \E s \in Streams : ResumeAfterError(s)
    \/ \E s \in Streams : ResumeAfterServiceError(s)
    \/ \E s \in Streams : Abandon(s)
    \/ Cleanup(FALSE)
    \/ Advance(Times)

Spec == Init /\ [][Next]_vars


\* streaming_service.health_check(): the dict it returns (it awaits nothing
\* and changes nothing, so it can be read off any state).
HealthCheck(conns) ==
    [status |-> "healthy",
     active_connections |-> Cardinality(DOMAIN conns),
     service_available |-> TRUE]

\* ------------------------------------------------- the sweep in isolation
\* cleanup_abandoned_connections as a function of the registry it finds:
\* every content of the dict that create_stream's writes can produce
\* (keys and created_at from a clock reading, any of the three statuses),
\* swept at any later clock reading with any timeout.
InitSweep ==
    /\ \E P \in SUBSET (Contexts \X CreationTimes) :
         \E st \in [P -> Statuses], li \in [P -> Offsets] :
            active_connections =
                [k \in {ConnectionId(p[1], p[2]) : p \in P} |->
                    LET p == CHOOSE q \in P : ConnectionId(q[1], q[2]) = k IN
                        [context_id |-> p[1], last_token_index |-> li[p],
                         created_at |-> p[2], status |-> st[p]]]
    /\ clock \in SweepTimes
    /\ \A k \in DOMAIN active_connections :
           active_connections[k].created_at <= clock
    /\ pc = [s \in Streams |-> "idle"]
    /\ context_id = [s \in Streams |-> None]
    /\ last_token_index = [s \in Streams |-> 0]
    /\ connection_id = [s \in Streams |-> NoConnection]
    /\ current_token_index = [s \in Streams |-> 0]
    /\ events = [s \in Streams |-> <<>>]
    /\ out = [s \in Streams |-> <<>>]
    /\ resume_of = [s \in Streams |-> NoStream]
    /\ cleanup_log = <<>>
    /\ delivered = 0
    /\ message = [s \in Streams |-> EmptyMessage]
    /\ CallsIdle

NextSweep ==
    \/ Cleanup(TRUE)
    \/ Advance(SweepTimes)

SpecSweep == InitSweep /\ [][NextSweep]_vars


\* ------------------------------------ the endpoint in front of the service
\* GET /chat/streaming: chat_streaming checks the message and either raises
\* HTTPException(400, EMPTY_MESSAGE) or returns a StreamingResponse over
\* generate_stream(), whose body has not started to run.
ChatStreaming(s) ==
    \E m \in Messages, c \in Contexts, r \in RequestOffsets :
        /\ IsNextRequest(s)
        /\ message' = [message EXCEPT ![s] = m]
        /\ IF IsEmptyMessage(m)
           THEN /\ Goto(s, "rejected")
                /\ UNCHANGED <<context_id, last_token_index>>
           ELSE /\ Goto(s, "accepted")
                /\ context_id' = [context_id EXCEPT ![s] = c]
                /\ last_token_index' = [last_token_index EXCEPT ![s] = r]
        /\ UNCHANGED <<active_connections, clock, connection_id,
                       current_token_index, events, out, resume_of,
                       cleanup_log, delivered, call_vars>>

\* The transport asks generate_stream() for its first frame: create_stream
\* starts with the arguments the endpoint passed on.
OpenStream(s) ==
    /\ pc[s] = "accepted"
    /\ Register(s, context_id[s], last_token_index[s], NoStream)

\* Variant: other coroutines run between the status assignment and the
\* finally block.
EventLoopFreeAlways == TRUE

\* Between the assignment of a terminal status and the finally block there
\* is no await: no other coroutine runs while a generator stands there.
EventLoopFree == \A s \in Streams : pc[s] # "marked"

\* The consumer asks for the envelope after a terminal one, taken statement
\* by statement: first `self.active_connections[connection_id]["status"] = st`.
MarkStatus(s, label, st) ==
    /\ pc[s] = label
    /\ IF connection_id[s] \in DOMAIN active_connections
       THEN /\ active_connections' =
                   SetStatus(active_connections, connection_id[s], st)
            /\ Goto(s, "marked")
            /\ UNCHANGED <<out, events, current_token_index>>
       ELSE IF label = "yield_service_error"
            THEN /\ Finish(s, "raised")
                 /\ UNCHANGED out
            ELSE /\ ServiceError(s, KeyErrorDetail)
                 /\ UNCHANGED <<active_connections, events, current_token_index>>
    /\ UNCHANGED <<clock, context_id, last_token_index, connection_id,
                   resume_of, cleanup_log, delivered, message, call_vars>>

MarkAfterEnd(s) == MarkStatus(s, "yield_end", "completed")

MarkAfterError(s) == MarkStatus(s, "yield_error", "error")

MarkAfterServiceError(s) == MarkStatus(s, "yield_service_error", "error")

\* ... then run_streaming returns and the finally block runs.
RunFinally(s) ==
    /\ pc[s] = "marked"
    /\ Finish(s, "done")
    /\ UNCHANGED <<clock, context_id, last_token_index, connection_id, out,
                   resume_of, cleanup_log, delivered, message, call_vars>>

NextRequest ==
    \/ \E s \in Streams : EventLoopFree /\ ChatStreaming(s)
    \/ \E s \in Streams : EventLoopFree /\ OpenStream(s)
    \/ \E s \in Streams : EventLoopFree /\ RunnerEvent(s)
    \/ \E s \in Streams : EventLoopFree /\ RunnerComplete(s)
    \/ \E s \in Streams : EventLoopFree /\ RunnerFail(s)
    \/ \E s \in Streams : EventLoopFree /\ ResumeAfterToken(s)
    \/ \E s \in Streams : EventLoopFree /\ MarkAfterEnd(s)
    \/ \E s \in Streams : EventLoopFree /\ MarkAfterError(s)
    \/ \E s \in Streams : EventLoopFree /\ MarkAfterServiceError(s)
    \/ \E s \in Streams : RunFinally(s)
    \/ \E s \in Streams : EventLoopFree /\ Abandon(s)

SpecRequest == Init /\ [][NextRequest]_vars


\* ------------------------------------- streams that are read to their end
\* Every consumer keeps asking for the next envelope, and every run of the
\* model runner completes or fails after finitely many events.
ConsumerReads(s) ==
    \/ ResumeAfterToken(s)
    \/ ResumeAfterEnd(s)
    \/ ResumeAfterError(s)
    \/ ResumeAfterServiceError(s)

RunnerEnds(s) == RunnerComplete(s) \/ RunnerFail(s)

NextLive ==
    \/ \E s \in Streams : StartStream(s)
    \/ \E s \in Streams : RunnerEvent(s)
    \/ \E s \in Streams : RunnerEnds(s)
    \/ \E s \in Streams : ConsumerReads(s)
    \/ Cleanup(FALSE)
    \/ Advance(Times)

SpecLive ==
    /\ Init
    /\ [][NextLive]_vars
    /\ \A s \in Streams : WF_vars(ConsumerReads(s))
    /\ \A s \in Streams : WF_vars(RunnerEnds(s))

\* ----------------------------------------------------------- frame encoding
\* A dict handed to _format_sse_event is a sequence of items in the order
\* model_dump() gives them; a value is a str, an int >= 0 or None, and keys
\* and str values are sequences of one-character strings.
StrValue(t) == [kind |-> "str", text |-> t]
IntValue(n) == [kind |-> "int", n |-> n]
NullValue == [kind |-> "null"]
Item(key, value) == [key |-> key, value |-> value]

KeyToken == <<"t", "o", "k", "e", "n">>
KeyTokenIndex == <<"t", "o", "k", "e", "n", "_", "i", "n", "d", "e", "x">>
KeyContextId == <<"c", "o", "n", "t", "e", "x", "t", "_", "i", "d">>
KeyEventType == <<"e", "v", "e", "n", "t", "_", "t", "y", "p", "e">>
KeyFinalOutput == <<"f", "i", "n", "a", "l", "_", "o", "u", "t", "p", "u", "t">>
KeyErrorCode == <<"e", "r", "r", "o", "r", "_", "c", "o", "d", "e">>
KeyMessage == <<"m", "e", "s", "s", "a", "g", "e">>

\* StreamTokenEvent(...).model_dump(), field by field
TokenDump(token, token_index, ctx) ==
    <<Item(KeyToken, StrValue(token)),
      Item(KeyTokenIndex, IntValue(token_index)),
      Item(KeyContextId, StrValue(ctx)),
      Item(KeyEventType, StrValue(KeyToken))>>

\* StreamEndEvent(...).model_dump()
EndDump(ctx, final_output) ==
    <<Item(KeyContextId, StrValue(ctx)),
      Item(KeyEventType, StrValue(<<"e", "n", "d">>)),
      Item(KeyFinalOutput, StrValue(final_output))>>

\* StreamErrorEvent(...).model_dump(); context_id may be None
ErrorDump(ctx, error_code, text) ==
    <<Item(KeyContextId, ctx),
      Item(KeyEventType, StrValue(<<"e", "r", "r", "o", "r">>)),
      Item(KeyErrorCode, StrValue(error_code)),
      Item(KeyMessage, StrValue(text))>>

\* Characters of the texts an envelope can carry: a letter, a non-ASCII
\* letter, the line breaks, the quote and the backslash.
FrameChars == {"a", "é", "\n", "\r", "\"", "\\"}

FrameTexts == UNION {[1 .. n -> FrameChars] : n \in 0 .. MaxTextLen}

\* The dicts create_stream hands to _format_sse_event.
SseData ==
    {TokenDump(t, i, <<"c", "1">>) : t \in FrameTexts, i \in {0, 12}}
    \cup {EndDump(<<"c", "1">>, t) : t \in FrameTexts}
    \cup {ErrorDump(c, <<"E">>, t) :
            c \in {NullValue, StrValue(<<"c", "1">>)}, t \in FrameTexts}

\* Variant: the characters of a str are written as they are.
JsonEscapeNothing(ch) == <<ch>>

\* json.dumps(..., ensure_ascii=False) of one character of a str
JsonEscape(ch) ==
    CASE ch = "\"" -> <<"\\", "\"">>
      [] ch = "\\" -> <<"\\", "\\">>
      [] ch = "\n" -> <<"\\", "n">>
      [] ch = "\r" -> <<"\\", "r">>
      [] ch = "\t" -> <<"\\", "t">>
      [] OTHER -> <<ch>>

RECURSIVE JsonChars(_)
JsonChars(t) ==
    IF t = <<>> THEN <<>> ELSE JsonEscape(Head(t)) \o JsonChars(Tail(t))

JsonString(t) == <<"\"">> \o JsonChars(t) \o <<"\"">>

Digits == <<"0", "1", "2", "3", "4", "5", "6", "7", "8", "9">>

RECURSIVE JsonInt(_)
JsonInt(n) ==
    IF n < 10 THEN <<Digits[n + 1]>>
    ELSE JsonInt(n \div 10) \o <<Digits[(n % 10) + 1]>>

JsonValue(v) ==
    CASE v.kind = "str" -> JsonString(v.text)
      [] v.kind = "int" -> JsonInt(v.n)
      [] v.kind = "null" -> <<"n", "u", "l", "l">>

\* items joined by ", ", key and value by ": " (the default separators)
RECURSIVE JsonItems(_)
JsonItems(items) ==
    IF items = <<>> THEN <<>>
    ELSE JsonString(Head(items).key) \o <<":", " ">> \o JsonValue(Head(items).value)
         \o (IF Tail(items) = <<>> THEN <<>> ELSE <<",", " ">> \o JsonItems(Tail(items)))

\* json.dumps(data, ensure_ascii=False)
JsonDumps(data) == <<"{">> \o JsonItems(data) \o <<"}">>

\* f"data: {json_data}\n\n"
FormatSseEventOf(data) ==
    <<"d", "a", "t", "a", ":", " ">> \o JsonDumps(data) \o <<"\n", "\n">>

\* _format_sse_event(data)
FormatSseEvent ==
    /\ sse_data # NoCall
    /\ sse_frame = NoCall
    /\ sse_frame' = FormatSseEventOf(sse_data)
    /\ UNCHANGED <<active_connections, clock, stream_vars, cleanup_log,
                   delivered, sse_data, store_vars, session_log, wait_log,
                   status_log>>

InitFrame ==
    /\ active_connections = <<>>
    /\ clock = 0
    /\ pc = [s \in Streams |-> "idle"]
    /\ context_id = [s \in Streams |-> None]
    /\ last_token_index = [s \in Streams |-> 0]
    /\ connection_id = [s \in Streams |-> NoConnection]
    /\ current_token_index = [s \in Streams |-> 0]
    /\ events = [s \in Streams |-> <<>>]
    /\ out = [s \in Streams |-> <<>>]
    /\ resume_of = [s \in Streams |-> NoStream]
    /\ cleanup_log = <<>>
    /\ delivered = 0
    /\ message = [s \in Streams |-> EmptyMessage]
    /\ sse_data \in SseData
    /\ sse_frame = NoCall
    /\ StoreIdle

NextFrame == FormatSseEvent

SpecFrame == InitFrame /\ [][NextFrame]_vars

\* ------------------------------------------------- the session store, called
\* session_id values a caller passes: none, the empty string, two names.
SessionIds == {None, "", "c1", "c2"}

\* One recorded call of get_or_create_session.
SessionCall(session_id, session, raised) ==
    [session_id |-> session_id, session |-> session, raised |-> raised]

\* llm_service.get_or_create_session(session_id), called directly.
GetOrCreateSession(session_id) ==
    /\ Len(session_log) < MaxCalls
    /\ \/ LET got == GetOrCreateSessionOf(sessions, created, session_id) IN
            /\ sessions' = got.sessions
            /\ created' = got.created
            /\ session_log' =
                   Append(session_log,
                          SessionCall(session_id, got.session, FALSE))
       \/ \* SQLiteSession(session_id) raises; create_session re-raises
          /\ ReachesCreateSession(sessions, session_id)
          /\ session_log' =
                 Append(session_log, SessionCall(session_id, NoSession, TRUE))
          /\ UNCHANGED store_vars
    /\ UNCHANGED <<active_connections, clock, stream_vars, cleanup_log,
                   delivered, sse_data, sse_frame, wait_log, status_log>>

NextStore == \E session_id \in SessionIds : GetOrCreateSession(session_id)

SpecStore == Init /\ [][NextStore]_vars

\* ------------------------------------------------------------ POST /chat/wait
\* context_id values a request body carries (str | None).
WaitContexts == {None, "", "c1"}

\* result.final_output values Runner.run returns.
FinalOutputs == {Empty, Blank, Hi, There, Hi \o There}

\* (time.time() - start_time) * 1000 readings; the wall clock may step back.
ElapsedTimes == {-1, 2}

\* len(text.split())
RECURSIVE WordCount(_)
WordCount(text) ==
    LET word == LStrip(text) IN
        IF word = <<>> THEN 0
        ELSE LET n == CHOOSE k \in 1 .. Len(word) :
                          /\ \A i \in 1 .. k : ~IsSpace(word[i])
                          /\ k = Len(word) \/ IsSpace(word[k + 1])
             IN 1 + WordCount(SubSeq(word, n + 1, Len(word)))

\* ChatWaitRequest: message has min_length=1 and max_length=10000.
ChatWaitRequestValid(m) ==
    /\ MessageLen(m) >= 1
    /\ MessageLen(m) <= MaxMessageLength

\* ChatMessage(content=..., token_count=...) validates: content has 1 to 10000
\* characters and is not blank, token_count is greater than 0.
ChatMessageValid(content, token_count) ==
    /\ Len(content) >= 1
    /\ Len(content) <= MaxMessageLength
    /\ Strip(content) # <<>>
    /\ token_count > 0

\* ChatWaitResponse validates: token_count > 0, processing_time_ms >= 0.
ChatWaitResponseValid(token_count, processing_time_ms) ==
    /\ token_count > 0
    /\ processing_time_ms >= 0

\* FastAPI's response to a request body that fails validation.
UnprocessableEntity == [status_code |-> 422, detail |-> "validation errors"]

\* HTTPException(status_code, detail={"error_code": ..., "message": ...})
HttpError(status_code, error_code, text) ==
    [status_code |-> status_code, error_code |-> error_code, message |-> text]

EmptyMessageError ==
    HttpError(400, "EMPTY_MESSAGE",
              "Message cannot be empty. Please provide a valid message.")

ChatWaitError ==
    HttpError(500, "CHAT_WAIT_ERROR",
              "An error occurred while processing your request.")

\* Variant: the response is built without any validation.
ChatWaitResponseUnvalidated(final_output, ctx, processing_time_ms) ==
    [status_code |-> 200,
     message |-> Strip(final_output),
     context_id |-> OrDefault(ctx),
     token_count |-> WordCount(final_output),
     processing_time_ms |-> processing_time_ms]

\* The dict run_sync returns, as chat_wait reads it, and the response made of it.
ChatWaitResponse(final_output, ctx, processing_time_ms) ==
    IF /\ ChatMessageValid(final_output, WordCount(final_output))
       /\ ChatWaitResponseValid(WordCount(final_output), processing_time_ms)
    THEN [status_code |-> 200,
          message |-> Strip(final_output),
          context_id |-> OrDefault(ctx),
          token_count |-> WordCount(final_output),
          processing_time_ms |-> processing_time_ms]
    ELSE ChatWaitError

\* One recorded request: its body, what the runner did and the response.
WaitCall(m, ctx, runner, final_output, response) ==
    [message |-> m, context_id |-> ctx, runner |-> runner,
     final_output |-> final_output, response |-> response]

\* chat_wait(request), with the run_sync it awaits.
ChatWait(m, ctx) ==
    /\ Len(wait_log) < MaxWaits
    /\ \/ /\ ~ChatWaitRequestValid(m)
          /\ wait_log' = Append(wait_log,
                 WaitCall(m, ctx, "not run", Empty, UnprocessableEntity))
          /\ UNCHANGED store_vars
       \/ /\ ChatWaitRequestValid(m)
          /\ IsEmptyMessage(m)
          /\ wait_log' = Append(wait_log,
                 WaitCall(m, ctx, "not run", Empty, EmptyMessageError))
          /\ UNCHANGED store_vars
       \/ \* llm_service.get_or_create_session(context_id) raises
          /\ ChatWaitRequestValid(m)
          /\ ~IsEmptyMessage(m)
          /\ ReachesCreateSession(sessions, ctx)
          /\ wait_log' = Append(wait_log,
                 WaitCall(m, ctx, "not run", Empty, ChatWaitError))
          /\ UNCHANGED store_vars
       \/ /\ ChatWaitRequestValid(m)
          /\ ~IsEmptyMessage(m)
          /\ LET got == GetOrCreateSessionOf(sessions, created, ctx) IN
                /\ sessions' = got.sessions
                /\ created' = got.created
          /\ \/ \* Runner.run raises
                wait_log' = Append(wait_log,
                    WaitCall(m, ctx, "raised", Empty, ChatWaitError))
             \/ \E final_output \in FinalOutputs, elapsed \in ElapsedTimes :
                    wait_log' = Append(wait_log,
                        WaitCall(m, ctx, "returned", final_output,
                                 ChatWaitResponse(final_output, ctx, elapsed)))
    /\ UNCHANGED <<active_connections, clock, stream_vars, cleanup_log,
                   delivered, sse_data, sse_frame, session_log, status_log>>

NextWait == \E m \in Messages, ctx \in WaitContexts : ChatWait(m, ctx)

SpecWait == Init /\ [][NextWait]_vars

\* ------------------------------------------------------ the status lookup
\* context_id values get_connection_status is asked about.
StatusContexts == {None, "c1", "c2", "default"}

\* The dict get_connection_status builds from the entry under conn_id.
ConnectionStatus(conns, conn_id) ==
    [connection_id |-> conn_id,
     context_id |-> conns[conn_id].context_id,
     last_token_index |-> conns[conn_id].last_token_index,
     status |-> conns[conn_id].status,
     created_at |-> conns[conn_id].created_at]

\* Variant: the entry is found by the conversation part of its key.
MatchingConnectionsByKey(conns, ctx) ==
    {conn_id \in DOMAIN conns : conn_id[1] = OrDefault(ctx)}

\* `if conn_data["context_id"] == context_id`
MatchingConnections(conns, ctx) ==
    {conn_id \in DOMAIN conns : conns[conn_id].context_id = ctx}

\* What get_connection_status(context_id) may return: the dict of the first
\* matching entry in the dict's order (any matching entry, the order being
\* that of insertion), or None, written <<>>, when the loop finds none.
GetConnectionStatusOf(conns, ctx) ==
    IF MatchingConnections(conns, ctx) = {}
    THEN {<<>>}
    ELSE {<<ConnectionStatus(conns, conn_id)>> :
             conn_id \in MatchingConnections(conns, ctx)}

\* streaming_service.get_connection_status(context_id)
GetConnectionStatus(ctx) ==
    /\ Len(status_log) < MaxLookups
    /\ \E result \in GetConnectionStatusOf(active_connections, ctx) :
           status_log' =
               Append(status_log, [context_id |-> ctx, result |-> result])
    /\ UNCHANGED <<active_connections, clock, stream_vars, cleanup_log,
                   delivered, sse_data, sse_frame, store_vars, session_log,
                   wait_log>>

\* The lookup over every content of the registry create_stream can produce.
NextStatus == \E ctx \in StatusContexts : GetConnectionStatus(ctx)

SpecStatus == InitSweep /\ [][NextStatus]_vars

\* ------------------------------------------- the context_id query parameter
\* context_id values GET /chat/streaming passes to create_stream: the
\* parameter left out, given empty (`context_id=`) and given a name.
QueryContexts == {None, "", "c1"}

\* create_stream started for a request with any of these, from index 0.
StartQuery(s) == \E c \in QueryContexts : Begin(s, c, 0, NoStream)

NextContext ==
    \/ \E s \in Streams : StartQuery(s)
    \/ \E s \in Streams : RunnerEvent(s)
    \/ \E s \in Streams : RunnerEnds(s)
    \/ \E s \in Streams : ConsumerReads(s)

SpecContext == Init /\ [][NextContext]_vars

\* ------------------------------------------ the frames put on the wire
KeyType == <<"t", "y", "p", "e">>

ChatStreamingErrorCode ==
    <<"C", "H", "A", "T", "_", "S", "T", "R", "E", "A", "M", "I", "N", "G",
      "_", "E", "R", "R", "O", "R">>

ChatStreamingErrorMessage ==
    <<"A", "n", " ", "e", "r", "r", "o", "r", " ", "o", "c", "c", "u", "r",
      "r", "e", "d", " ", "w", "h", "i", "l", "e", " ", "s", "t", "r", "e",
      "a", "m", "i", "n", "g", " ", "t", "h", "e", " ", "r", "e", "s", "p",
      "o", "n", "s", "e", ".">>

\* context_id values of a request that ends in the endpoint's fallback.
FallbackContexts ==
    {NullValue, StrValue(<<"c", "1">>), StrValue(<<"é">>)}

\* error_data of chat_streaming's `except Exception`
FallbackDump(ctx) ==
    <<Item(KeyType, StrValue(<<"e", "r", "r", "o", "r">>)),
      Item(KeyContextId, ctx),
      Item(KeyErrorCode, StrValue(ChatStreamingErrorCode)),
      Item(KeyMessage, StrValue(ChatStreamingErrorMessage))>>

\* json.dumps(...) with the default ensure_ascii=True, of one character
JsonEscapeAscii(ch) ==
    IF ch = "é" THEN <<"\\", "u", "0", "0", "e", "9">> ELSE JsonEscape(ch)

RECURSIVE JsonCharsAscii(_)
JsonCharsAscii(t) ==
    IF t = <<>> THEN <<>>
    ELSE JsonEscapeAscii(Head(t)) \o JsonCharsAscii(Tail(t))

JsonValueAscii(v) ==
    IF v.kind = "str" THEN <<"\"">> \o JsonCharsAscii(v.text) \o <<"\"">>
    ELSE JsonValue(v)

RECURSIVE JsonItemsAscii(_)
JsonItemsAscii(items) ==
    IF items = <<>> THEN <<>>
    ELSE JsonValueAscii(StrValue(Head(items).key)) \o <<":", " ">>
         \o JsonValueAscii(Head(items).value)
         \o (IF Tail(items) = <<>> THEN <<>>
             ELSE <<",", " ">> \o JsonItemsAscii(Tail(items)))

\* json.dumps(error_data)
JsonDumpsAscii(data) == <<"{">> \o JsonItemsAscii(data) \o <<"}">>

\* create_stream builds an envelope and hands its model_dump() to
\* _format_sse_event.
DumpEnvelope ==
    /\ sse_data = NoCall
    /\ sse_data' \in SseData
    /\ UNCHANGED <<active_connections, clock, stream_vars, cleanup_log,
                   delivered, sse_frame, store_vars, session_log, wait_log,
                   status_log>>

\* A statement of chat_streaming's try block raises an exception that is no
\* HTTPException: the endpoint answers with a stream of one frame it
\* encodes itself.
ChatStreamingFallback ==
    /\ sse_data = NoCall
    /\ \E ctx \in FallbackContexts :
          /\ sse_data' = FallbackDump(ctx)
          /\ sse_frame' =
                 <<"d", "a", "t", "a", ":", " ">>
                 \o JsonDumpsAscii(FallbackDump(ctx)) \o <<"\n", "\n">>
    /\ UNCHANGED <<active_connections, clock, stream_vars, cleanup_log,
                   delivered, store_vars, session_log, wait_log, status_log>>

NextWire ==
    \/ DumpEnvelope
    \/ FormatSseEvent
    \/ ChatStreamingFallback

SpecWire == Init /\ [][NextWire]_vars

\* ------------------------------------------------------------------ claims
Last(seq) == seq[Len(seq)]

Finished == {"done", "raised", "closed"}

IsTerminal(e) == e.event_type \in {"end", "error"}

TerminalsOf(envs) == SelectSeq(envs, IsTerminal)

\* Every character is whitespace (the empty text included).
IsBlankText(t) == \A i \in 1 .. Len(t) : t[i] \in {" ", "\n", "\t", "\r"}

\* The text deltas among runner events that carry something besides
\* whitespace, in order.
IsSolidDelta(e) ==
    /\ e.type = "raw_response_event"
    /\ e.delta # NonText
    /\ ~IsBlankText(e.delta)

SolidDeltas(evs) == SelectSeq(evs, IsSolidDelta)

\* The stream was read to its end and End closed it.
Successful(s) ==
    /\ pc[s] = "done"
    /\ out[s] # <<>>
    /\ Last(out[s]).event_type = "end"

\* C1: a stream opened with resume offset r >= 0 that completes successfully
\* has emitted Tokens whose token_index are r, r+1, r+2, ... in emission
\* order (the first one exactly r), followed by exactly one End envelope and
\* nothing else.
C1_SuccessfulStreamIsContiguousThenEnd ==
    \A s \in Streams :
        (Successful(s) /\ last_token_index[s] >= 0) =>
            LET n == Len(out[s]) IN
                /\ \A i \in 1 .. n - 1 :
                       /\ out[s][i].event_type = "token"
                       /\ out[s][i].token_index = last_token_index[s] + i - 1
                /\ out[s][n].event_type = "end"

C1_Witness ==
    \E s \in Streams :
        /\ Successful(s)
        /\ last_token_index[s] = 3
        /\ Len(out[s]) = 3
        /\ out[s][1].token_index = 3
        /\ out[s][2].token_index = 4

\* C2: a stream whose model runner or conversation-store lookup failed after
\* k non-whitespace deltas shows exactly k Tokens followed by exactly one
\* Error: no End, and nothing after the Error.
C2_RunnerFailureIsTokensThenOneError ==
    \A s \in Streams :
        (\E i \in 1 .. Len(out[s]) :
            /\ out[s][i].event_type = "error"
            /\ out[s][i].error_code = "STREAMING_ERROR") =>
            LET n == Len(out[s]) IN
                /\ \A i \in 1 .. n - 1 : out[s][i].event_type = "token"
                /\ out[s][n].event_type = "error"
                /\ pc[s] = "yield_error" =>
                       n - 1 = Len(SolidDeltas(events[s]))

\* C3: a client that received the first Tokens of a stream, disconnected and
\* reopened the stream with last_token_index taken from what it received has,
\* over both connections, received the generation's text once: nothing
\* twice, nothing missing.
TextsOf(envs) == [i \in 1 .. Len(TokensOf(envs)) |-> TokensOf(envs)[i].token]

DeltaTexts(evs) == [i \in 1 .. Len(SolidDeltas(evs)) |-> SolidDeltas(evs)[i].delta]

IsPrefix(a, b) == Len(a) <= Len(b) /\ SubSeq(b, 1, Len(a)) = a

C3_ResumeDeliversEachTextOnce ==
    \A s \in Streams :
        (/\ resume_of[s] # NoStream
         /\ pc[s] = "yield_end"
         /\ IsPrefix(TextsOf(out[resume_of[s]]), DeltaTexts(events[s]))) =>
            TextsOf(out[resume_of[s]]) \o TextsOf(out[s]) = DeltaTexts(events[s])

\* C4: when a stream's envelope sequence finishes in any way (drained after
\* End or Error, an exception, or the consumer abandoning it at any
\* suspension point, also before the first envelope), the registry holds no
\* entry under that stream's connection id; an entry found under the id of a
\* finished stream is the entry of another stream still in flight.
C4_FinishedStreamHasNoEntry ==
    /\ [](\A s \in Streams :
            pc[s] \in Finished =>
                \/ connection_id[s] \notin DOMAIN active_connections
                \/ \E q \in Streams :
                       /\ q # s
                       /\ pc[q] \in InFlight
                       /\ connection_id[q] = connection_id[s])
    /\ [][\A s \in Streams :
            (pc[s] \in InFlight /\ pc'[s] \in Finished) =>
                connection_id[s] \notin DOMAIN active_connections']_vars

C4_Witness ==
    \E s, q \in Streams :
        /\ pc[s] = "closed"
        /\ out[s] = <<>>
        /\ pc[q] = "done"
        /\ active_connections = <<>>

\* C5: in every interleaving with other streams and with sweeps, a stream
\* emits at most one terminal envelope (End or Error), nothing follows it,
\* and a stream read to its end has exactly one.
C5_ExactlyOneTerminalEnvelope ==
    \A s \in Streams :
        /\ Len(TerminalsOf(out[s])) <= 1
        /\ \A i \in 1 .. Len(out[s]) - 1 : ~IsTerminal(out[s][i])
        /\ pc[s] \in {"done", "raised"} => Len(TerminalsOf(out[s])) = 1

\* C6: once a streaming request has passed validation, its envelope sequence
\* never ends by raising an exception to the transport layer.
C6_NoExceptionReachesTransport ==
    \A s \in Streams : pc[s] # "raised"

\* C7: the message of every Error envelope is generic: it never carries the
\* text of the underlying exception.
C7_ErrorMessageIsGeneric ==
    \A s \in Streams :
        \A i \in 1 .. Len(out[s]) :
            out[s][i].event_type = "error" =>
                out[s][i].message \notin ExceptionDetails

\* C8: a sweep with timeout T removes exactly the entries that are active
\* and strictly older than T, leaves every other entry as it was, and
\* returns the number of entries it removed.
C8_SweepRemovesExactlyAbandoned ==
    [][Len(cleanup_log') = Len(cleanup_log) + 1 =>
          LET T == Last(cleanup_log').timeout_seconds
              removed == {k \in DOMAIN active_connections :
                             /\ active_connections[k].status = "active"
                             /\ clock - active_connections[k].created_at > T}
          IN  /\ DOMAIN active_connections' = DOMAIN active_connections \ removed
              /\ \A k \in DOMAIN active_connections' :
                     active_connections'[k] = active_connections[k]
              /\ Last(cleanup_log').cleaned_count = Cardinality(removed)]_vars

\* Scenario D next to its neighbours: swept at 301 with timeout 300, the
\* active entry created at 0 is gone and counted, the active entry created
\* at 1 (exactly 300 old) and a completed entry created at 0 are still there.
C8_Witness ==
    /\ cleanup_log = <<[timeout_seconds |-> DefaultTimeout,
                        current_time |-> DefaultTimeout + 1,
                        cleaned_count |-> 1]>>
    /\ \E k \in DOMAIN active_connections :
           /\ active_connections[k].status = "active"
           /\ active_connections[k].created_at = 1
    /\ \E k \in DOMAIN active_connections :
           /\ active_connections[k].status = "completed"
           /\ active_connections[k].created_at = 0

C10_BlankDeltasProduceNoToken ==
    \A s \in Streams :
        pc[s] \in {"await_event", "yield_token", "yield_end", "yield_error"} =>
            /\ TextsOf(out[s]) = DeltaTexts(events[s])
            /\ \A i \in 1 .. Len(TokensOf(out[s])) :
                   TokensOf(out[s])[i].token_index = last_token_index[s] + i - 1

C10_Witness ==
    \E s \in Streams :
        /\ pc[s] = "yield_token"
        /\ Len(events[s]) = 2
        /\ events[s][1].type = "raw_response_event"
        /\ events[s][1].delta = Blank
        /\ Last(out[s]).token_index = last_token_index[s]

\* Every character of the request text is whitespace (the empty text
\* included).
IsBlankMessage(m) == \A i \in 1 .. Len(m) : m[i].ch \in {" ", "\n", "\t", "\r"}

\* C11: a streaming request whose message is empty or only whitespace is
\* rejected before any session exists: the step that answers it leaves the
\* registry, the runner's events and every envelope sequence as they were,
\* and the request never gets a connection id, a runner event or an envelope.
C11_BlankMessageIsRejectedBeforeAnySession ==
    /\ [](\A s \in Streams :
            (pc[s] # "idle" /\ IsBlankMessage(message[s])) =>
                /\ pc[s] = "rejected"
                /\ connection_id[s] = NoConnection
                /\ events[s] = <<>>
                /\ out[s] = <<>>)
    /\ [][\A s \in Streams :
            (pc[s] = "idle" /\ pc'[s] # "idle" /\ IsBlankMessage(message'[s])) =>
                /\ pc'[s] = "rejected"
                /\ active_connections' = active_connections
                /\ events' = events
                /\ out' = out
                /\ delivered' = delivered]_vars

\* A whitespace-only request was rejected while another stream holds an
\* entry and has delivered a Token.
C11_Witness ==
    \E s, q \in Streams :
        /\ pc[s] = "rejected"
        /\ message[s] = BlankMessage
        /\ pc[q] = "yield_token"
        /\ DOMAIN active_connections = {connection_id[q]}

\* C12: a streaming request whose message is longer than the 10000
\* characters the request models allow is rejected before any session is
\* created and before any envelope is produced: it never gets a connection
\* id or an envelope.
C12_OversizedMessageIsRejected ==
    \A s \in Streams :
        MessageLen(message[s]) > MaxMessageLength =>
            /\ connection_id[s] = NoConnection
            /\ out[s] = <<>>

\* C13: the last_token_index recorded for a session starts at the resume
\* offset and goes up by exactly 1 per delivered Token: whenever a stream
\* that shares its registry key with no other stream waits for the next
\* runner event, having delivered n Tokens, its entry records offset + n.
C13_RegistryIndexCountsDeliveredTokens ==
    \A s \in Streams :
        (/\ pc[s] = "await_event"
         /\ connection_id[s] \in DOMAIN active_connections
         /\ \A q \in Streams : q # s => connection_id[q] # connection_id[s]) =>
            active_connections[connection_id[s]].last_token_index =
                last_token_index[s] + Len(TokensOf(out[s]))

\* C14: for every resume offset a caller can pass through the streaming
\* endpoint, every registry entry's last_token_index and every Token's
\* token_index is non-negative; a negative offset never creates a session.
C14_IndicesAreNonNegative ==
    /\ \A k \in DOMAIN active_connections :
           active_connections[k].last_token_index >= 0
    /\ \A s \in Streams :
           \A i \in 1 .. Len(out[s]) :
               out[s][i].event_type = "token" => out[s][i].token_index >= 0
    /\ \A s \in Streams :
           last_token_index[s] < 0 => connection_id[s] = NoConnection

\* C15: connection_id is unique per streaming attempt: two distinct attempts
\* that have begun, also for the same conversation (or both without one) at
\* the same clock reading, never hold the same registry key.
C15_ConnectionIdIsUniquePerAttempt ==
    \A s, q \in Streams :
        (s # q /\ connection_id[s] # NoConnection
               /\ connection_id[q] # NoConnection) =>
            connection_id[s] # connection_id[q]

\* C16: two streams opened for the same conversation are independent: a
\* stream does not fail on the registry because of the other one, its Token
\* indices are contiguous from its own resume offset, and when it has been
\* read to its end it has ended, without raising, on one terminal envelope
\* of its own.
C16_ConcurrentStreamsAreIndependent ==
    \A s \in Streams :
        (\E q \in Streams :
            /\ q # s
            /\ connection_id[q] # NoConnection
            /\ context_id[q] = context_id[s]) =>
            /\ \A i \in 1 .. Len(out[s]) :
                   out[s][i].event_type = "error" =>
                       out[s][i].message # KeyErrorDetail
            /\ \A i \in 1 .. Len(TokensOf(out[s])) :
                   TokensOf(out[s])[i].token_index = last_token_index[s] + i - 1
            /\ pc[s] # "raised"
            /\ pc[s] = "done" =>
                   /\ Len(TerminalsOf(out[s])) = 1
                   /\ IsTerminal(Last(out[s]))

\* The token_index values of the Tokens in a sequence of envelopes.
TokenIndices(envs) ==
    {TokensOf(envs)[i].token_index : i \in 1 .. Len(TokensOf(envs))}

\* C17: when a client reconnects passing as last_token_index the token_index
\* of the last Token it received, no token_index of the resumed stream is one
\* the client already received on the first connection.
C17_ResumedIndicesDoNotOverlap ==
    \A s \in Streams :
        resume_of[s] # NoStream =>
            TokenIndices(out[s]) \cap TokenIndices(out[resume_of[s]]) = {}

\* C18: terminal states are final: while an entry exists its status changes
\* only from active to completed or from active to error; a completed or
\* error entry never changes status again.
C18_TerminalStatusIsFinal ==
    [][\A k \in DOMAIN active_connections \cap DOMAIN active_connections' :
          active_connections'[k].status # active_connections[k].status =>
              /\ active_connections[k].status = "active"
              /\ active_connections'[k].status \in {"completed", "error"}]_vars

\* A stream has marked as completed the entry it shares with a stream that
\* is still in flight, and the finally block has not run yet.
C18_Witness ==
    \E s, q \in Streams :
        /\ pc[s] = "marked"
        /\ pc[q] \in InFlight
        /\ connection_id[q] = connection_id[s]
        /\ active_connections[connection_id[s]].status = "completed"

\* C19: every stream whose consumer keeps reading and whose runner
\* completes or fails is finite: once begun, it eventually has yielded a
\* terminal envelope, its sequence has ended, and the registry holds no
\* entry under its connection id.
C19_StreamIsFinite ==
    \A s \in Streams :
        (pc[s] \in InFlight) ~>
            (/\ pc[s] \in {"done", "raised"}
             /\ TerminalsOf(out[s]) # <<>>
             /\ connection_id[s] \notin DOMAIN active_connections)

\* Both streams were read to their end, one after Tokens and an End, and
\* the registry is empty.
C19_Witness ==
    /\ \A s \in Streams : pc[s] = "done"
    /\ \E s \in Streams : Len(out[s]) = 3 /\ Last(out[s]).event_type = "end"
    /\ active_connections = <<>>

\* The texts of a sequence, one after the other.
RECURSIVE Concat(_)
Concat(texts) ==
    IF texts = <<>> THEN <<>> ELSE Head(texts) \o Concat(Tail(texts))

\* C20: End carries the full accumulated text: for a successful stream the
\* token texts of its Token envelopes, concatenated in order, are exactly
\* End.final_output.
C20_EndCarriesConcatenatedTokens ==
    \A s \in Streams :
        Successful(s) => Concat(TextsOf(out[s])) = Last(out[s]).final_output

\* The text deltas among runner events, whitespace-only ones included.
IsTextDelta(e) == e.type = "raw_response_event" /\ e.delta # NonText

AllDeltaTexts(evs) ==
    [i \in 1 .. Len(SelectSeq(evs, IsTextDelta)) |->
        SelectSeq(evs, IsTextDelta)[i].delta]

\* C20 as amended: when the runner has completed, End.final_output is the
\* text of all the runner's deltas in order, whitespace-only ones included;
\* the Token texts concatenated are the text of the deltas that are not
\* whitespace-only, and equal End.final_output when no delta is one or more
\* whitespace characters and nothing else.
C20_EndCarriesRunnerOutput ==
    \A s \in Streams :
        pc[s] = "yield_end" =>
            /\ Last(out[s]).event_type = "end"
            /\ Last(out[s]).final_output = Concat(AllDeltaTexts(events[s]))
            /\ Concat(TextsOf(out[s])) = Concat(DeltaTexts(events[s]))
            /\ (\A i \in 1 .. Len(AllDeltaTexts(events[s])) :
                    LET d == AllDeltaTexts(events[s])[i] IN
                        IsBlankText(d) => d = <<>>) =>
                   Concat(TextsOf(out[s])) = Last(out[s]).final_output

\* Scenario A: deltas "Hi" and " there", Tokens 0 and 1, End "Hi there".
C20_Witness ==
    \E s \in Streams :
        /\ pc[s] = "yield_end"
        /\ AllDeltaTexts(events[s]) = <<Hi, There>>
        /\ TextsOf(out[s]) = <<Hi, There>>
        /\ Last(out[s]).final_output = Hi \o There

\* Reading a frame's payload back as JSON (an object of str, int >= 0 and
\* null values): a raw control character inside a str, an unknown escape or
\* anything left over after the closing brace makes the text invalid.
At(cs, i) == IF i \in 1 .. Len(cs) THEN cs[i] ELSE "<eof>"

Unescape(ch) ==
    CASE ch = "n" -> "\n"
      [] ch = "r" -> "\r"
      [] ch = "t" -> "\t"
      [] ch = "\"" -> "\""
      [] ch = "\\" -> "\\"
      [] OTHER -> "<bad>"

\* cs[i] is the character after the opening quote; next = 0 means invalid.
RECURSIVE ParseString(_, _, _)
ParseString(cs, i, acc) ==
    LET ch == At(cs, i) IN
        IF ch \in {"<eof>", "\n", "\r", "\t"} THEN [next |-> 0, text |-> <<>>]
        ELSE IF ch = "\"" THEN [next |-> i + 1, text |-> acc]
        ELSE IF ch = "\\"
             THEN IF <<At(cs, i + 1), At(cs, i + 2), At(cs, i + 3),
                       At(cs, i + 4), At(cs, i + 5)>>
                         = <<"u", "0", "0", "e", "9">>
                  THEN ParseString(cs, i + 6, Append(acc, "é"))
                  ELSE IF Unescape(At(cs, i + 1)) = "<bad>"
                  THEN [next |-> 0, text |-> <<>>]
                  ELSE ParseString(cs, i + 2, Append(acc, Unescape(At(cs, i + 1))))
        ELSE ParseString(cs, i + 1, Append(acc, ch))

IsDigit(ch) == \E d \in 1 .. 10 : Digits[d] = ch

DigitOf(ch) == (CHOOSE d \in 1 .. 10 : Digits[d] = ch) - 1

RECURSIVE ParseInt(_, _, _)
ParseInt(cs, i, n) ==
    IF IsDigit(At(cs, i)) THEN ParseInt(cs, i + 1, 10 * n + DigitOf(At(cs, i)))
    ELSE [next |-> i, value |-> IntValue(n)]

ParseValue(cs, i) ==
    IF At(cs, i) = "\""
    THEN LET r == ParseString(cs, i + 1, <<>>) IN
             [next |-> r.next, value |-> StrValue(r.text)]
    ELSE IF IsDigit(At(cs, i)) THEN ParseInt(cs, i, 0)
    ELSE IF <<At(cs, i), At(cs, i + 1), At(cs, i + 2), At(cs, i + 3)>>
                = <<"n", "u", "l", "l">>
         THEN [next |-> i + 4, value |-> NullValue]
    ELSE [next |-> 0, value |-> NullValue]

RECURSIVE ParseItems(_, _, _)
ParseItems(cs, i, acc) ==
    LET k == IF At(cs, i) = "\"" THEN ParseString(cs, i + 1, <<>>)
             ELSE [next |-> 0, text |-> <<>>]
        colon == k.next # 0 /\ At(cs, k.next) = ":" /\ At(cs, k.next + 1) = " "
        v == IF colon THEN ParseValue(cs, k.next + 2)
             ELSE [next |-> 0, value |-> NullValue]
        items == Append(acc, Item(k.text, v.value))
    IN  IF v.next = 0 THEN [next |-> 0, items |-> <<>>]
        ELSE IF At(cs, v.next) = "}" THEN [next |-> v.next + 1, items |-> items]
        ELSE IF At(cs, v.next) = "," /\ At(cs, v.next + 1) = " "
             THEN ParseItems(cs, v.next + 2, items)
        ELSE [next |-> 0, items |-> <<>>]

JsonLoads(cs) ==
    LET r == IF At(cs, 1) = "{" THEN ParseItems(cs, 2, <<>>)
             ELSE [next |-> 0, items |-> <<>>]
    IN  IF r.next = Len(cs) + 1 THEN [valid |-> TRUE, data |-> r.items]
        ELSE [valid |-> FALSE, data |-> <<>>]

\* C21: every envelope is encoded as exactly one frame: 'data: ', then one
\* JSON object (which reads back as the envelope), then a blank line; the two
\* characters of that terminator are the only raw line breaks in the frame,
\* also when a text of the envelope contains line breaks.
C21_OneEnvelopeOneFrame ==
    sse_frame # NoCall =>
        LET n == Len(sse_frame) IN
            /\ n >= 10
            /\ SubSeq(sse_frame, 1, 6) = <<"d", "a", "t", "a", ":", " ">>
            /\ SubSeq(sse_frame, n - 1, n) = <<"\n", "\n">>
            /\ \A i \in 1 .. n - 2 : sse_frame[i] \notin {"\n", "\r"}
            /\ JsonLoads(SubSeq(sse_frame, 7, n - 2)) =
                   [valid |-> TRUE, data |-> sse_data]

\* A Token whose text is a line break followed by a quote has been encoded.
C21_Witness ==
    /\ sse_data = TokenDump(<<"\n", "\"">>, 12, <<"c", "1">>)
    /\ sse_frame # NoCall
    /\ Len(sse_frame) = Len(FormatSseEventOf(TokenDump(<<"a", "a">>, 12, <<"c", "1">>))) + 2

\* Calls of get_or_create_session that returned.
Returned == {i \in 1 .. Len(session_log) : ~session_log[i].raised}

\* Every call that names an identifier returns the object the first such call
\* constructed, which the store still holds; a call without one returns None.
SameSessionPerIdentifier ==
    \A i \in Returned :
        LET call == session_log[i] IN
            IF call.session_id = None
            THEN call.session = NoSession
            ELSE /\ call.session # NoSession
                 /\ call.session_id \in DOMAIN sessions
                 /\ sessions[call.session_id] = call.session
                 /\ \A j \in Returned :
                        session_log[j].session_id = call.session_id =>
                            session_log[j].session = call.session

\* No identifier has had two objects constructed for it.
OneSessionPerIdentifier ==
    \A i, j \in 1 .. Len(created) : created[i] = created[j] => i = j

\* A call without an identifier leaves the store as it was.
StatelessCallAddsNothing ==
    (/\ session_log' # session_log
     /\ Last(session_log').session_id = None) => UNCHANGED store_vars

\* C30: get_or_create_session is idempotent per identifier: every call with a
\* given identifier returns the same session object, the one the first call
\* constructed, so that at most one object per identifier ever exists; a call
\* without an identifier returns None and adds nothing to the store.
C30_StoreLookupIsIdempotent ==
    /\ [](SameSessionPerIdentifier /\ OneSessionPerIdentifier)
    /\ [][StatelessCallAddsNothing]_vars

\* The same identifier has been looked up twice, around a stateless call.
C30_Witness ==
    \E i, j, k \in Returned :
        /\ i < k
        /\ k < j
        /\ session_log[i].session_id # None
        /\ session_log[j].session_id = session_log[i].session_id
        /\ session_log[k].session_id = None

\* Requests to /chat/wait answered with status 200.
WaitSuccesses ==
    {i \in 1 .. Len(wait_log) : wait_log[i].response.status_code = 200}

\* C22: every successful /chat/wait response carries the context_id of its
\* request when the request supplied one, and "default" when it supplied none.
C22_WaitEchoesContext ==
    \A i \in WaitSuccesses :
        wait_log[i].response.context_id =
            IF wait_log[i].context_id = None
            THEN "default"
            ELSE wait_log[i].context_id

\* C23: every 200 response of /chat/wait has a non-empty message and a
\* token_count above zero; when the runner raises, or returns an empty or
\* whitespace-only text, the response is not a 200 but the error payload with
\* error_code CHAT_WAIT_ERROR and the fixed message.
C23_WaitSuccessIsNeverEmpty ==
    \A i \in 1 .. Len(wait_log) :
        LET call == wait_log[i] IN
            /\ call.response.status_code = 200 =>
                   /\ Len(call.response.message) > 0
                   /\ ~IsBlankText(call.response.message)
                   /\ call.response.token_count > 0
            /\ (\/ call.runner = "raised"
                \/ /\ call.runner = "returned"
                   /\ IsBlankText(call.final_output)) =>
                   /\ call.response.status_code = 500
                   /\ call.response.error_code = "CHAT_WAIT_ERROR"
                   /\ call.response.message =
                          "An error occurred while processing your request."

\* One request was answered 200 and another met a runner that returned only
\* whitespace.
C23_Witness ==
    /\ WaitSuccesses # {}
    /\ \E i \in 1 .. Len(wait_log) :
          /\ wait_log[i].runner = "returned"
          /\ wait_log[i].final_output = Blank

\* The stream's generator is suspended and its entry is in the registry.
HasLiveEntry(s) ==
    /\ pc[s] \in InFlight
    /\ connection_id[s] \in DOMAIN active_connections

\* C24: a sweep removes only orphaned entries: the entry of a stream whose
\* generator is still suspended, its consumer still reading, survives every
\* step that is no step of a stream (the sweeps).
C24_ReaperSparesLiveStreams ==
    [][UNCHANGED <<stream_vars, clock>> =>
          \A s \in Streams :
              HasLiveEntry(s) =>
                  connection_id[s] \in DOMAIN active_connections']_vars

\* C25: registry accesses are race-free: whenever a stream that shares its
\* key with no other stream is resumed at a yield and goes on to read or
\* write its registry entry (every resumption but the one that closes the
\* generator), the entry is still in the registry.
C25_ResumedStreamFindsItsEntry ==
    [][\A s \in Streams :
          (/\ pc[s] \in YieldPoints
           /\ pc'[s] # pc[s]
           /\ pc'[s] # "closed"
           /\ \A q \in Streams \ {s} : connection_id[q] # connection_id[s]) =>
              connection_id[s] \in DOMAIN active_connections]_vars

\* C26: sessions share no mutable state: a step of one stream leaves the
\* registry entry of every other suspended stream in place and unchanged.
C26_StreamStepLeavesOtherEntries ==
    [][\A s, q \in Streams :
          (/\ s # q
           /\ pc'[s] # pc[s]
           /\ pc'[q] = pc[q]
           /\ HasLiveEntry(q)) =>
              /\ connection_id[q] \in DOMAIN active_connections'
              /\ active_connections'[connection_id[q]] =
                     active_connections[connection_id[q]]]_vars

\* C27: while the consumer holds a terminal envelope (End or Error) of a
\* stream, the stream's registry entry is absent or has status completed or
\* error; it is not reported as active.
C27_TerminalEnvelopeMeansTerminalStatus ==
    \A s \in Streams :
        (/\ pc[s] \in {"yield_end", "yield_error", "yield_service_error"}
         /\ connection_id[s] \in DOMAIN active_connections) =>
            active_connections[connection_id[s]].status \in {"completed", "error"}

\* The runner events whose processing raises (a delta that is not a str).
FailedEvents(evs) ==
    {i \in 1 .. Len(evs) :
        /\ evs[i].type = "raw_response_event"
        /\ evs[i].delta = NonText}

\* C28: a failure while one runner event is processed ends the stream: from
\* then on the stream stands at its single Error envelope, and no Token or
\* End follows the failure.
C28_FailedEventEndsStreamWithError ==
    \A s \in Streams :
        (pc[s] \in InFlight /\ FailedEvents(events[s]) # {}) =>
            /\ pc[s] \in {"yield_error", "yield_service_error"}
            /\ Len(TerminalsOf(out[s])) = 1
            /\ Last(out[s]).event_type = "error"

\* The last lookup returned None exactly when no entry has the context_id
\* asked for, and otherwise the five fields of an entry that has it.
LookupAnswersFromRegistry ==
    status_log # <<>> =>
        LET call == Last(status_log) IN
            IF \A k \in DOMAIN active_connections :
                   active_connections[k].context_id # call.context_id
            THEN call.result = <<>>
            ELSE /\ Len(call.result) = 1
                 /\ \E k \in DOMAIN active_connections :
                        /\ active_connections[k].context_id = call.context_id
                        /\ call.result[1] =
                               [connection_id |-> k,
                                context_id |-> call.context_id,
                                last_token_index |->
                                    active_connections[k].last_token_index,
                                status |-> active_connections[k].status,
                                created_at |-> active_connections[k].created_at]

\* C29: get_connection_status is a pure lookup: a call leaves the registry as
\* it was (no insert, update or delete), returns None when no entry has the
\* context_id asked for and otherwise the connection_id, context_id,
\* last_token_index, status and created_at of an entry that has it.
C29_StatusLookupIsPure ==
    /\ []LookupAnswersFromRegistry
    /\ [][status_log' # status_log =>
              active_connections' = active_connections]_vars

\* A lookup found one of two entries of the conversation asked about, while
\* the registry also holds an entry of a stream without context_id.
C29_Witness ==
    /\ status_log # <<>>
    /\ Last(status_log).context_id = "c1"
    /\ Len(Last(status_log).result) = 1
    /\ Cardinality(MatchingConnections(active_connections, "c1")) = 2
    /\ MatchingConnections(active_connections, None) # {}

\* C31: every Token and End envelope of a stream carries a context_id that is
\* a string: the context_id the request supplied, and "default" when it
\* supplied none; so all of them carry the same one.
C31_TokenAndEndCarryTheContext ==
    \A s \in Streams :
        \A i \in 1 .. Len(out[s]) :
            out[s][i].event_type \in {"token", "end"} =>
                /\ out[s][i].context_id # None
                /\ out[s][i].context_id =
                       IF context_id[s] = None THEN "default" ELSE context_id[s]

\* The values the event_type of a frame may have.
EventTypes ==
    {StrValue(<<"t", "o", "k", "e", "n">>), StrValue(<<"e", "n", "d">>),
     StrValue(<<"e", "r", "r", "o", "r">>)}

\* C32: every frame put on the wire, by the service for a token, an end or
\* an error and by the endpoint for its fallback error response, holds a JSON
\* object with a field event_type whose value is token, end or error.
C32_EveryFrameHasEventType ==
    sse_frame # NoCall =>
        LET read == JsonLoads(SubSeq(sse_frame, 7, Len(sse_frame) - 2)) IN
            /\ read.valid
            /\ \E i \in 1 .. Len(read.data) :
                   /\ read.data[i].key = KeyEventType
                   /\ read.data[i].value \in EventTypes

\* C33: once a stream that shares its key with no other stream has handed a
\* Token to the consumer, the last_token_index its entry records is never
\* greater than the token_index of the last Token handed over and at most 1
\* behind it, and equals it only after the consumer has asked for the
\* envelope after that Token (the generator no longer stands at its yield).
C33_RecordedIndexLagsByAtMostOne ==
    \A s \in Streams :
        (/\ HasLiveEntry(s)
         /\ TokensOf(out[s]) # <<>>
         /\ \A q \in Streams \ {s} : connection_id[q] # connection_id[s]) =>
            LET handed == Last(TokensOf(out[s])).token_index
                recorded == active_connections[connection_id[s]].last_token_index
            IN  /\ recorded <= handed
                /\ handed - recorded <= 1
                /\ recorded = handed => pc[s] # "yield_token"

\* The streams that have begun iteration and have not yet run their finally
\* block.
Running == {s \in Streams : pc[s] \in InFlight \cup {"marked"}}

\* C34: the registry holds entries only for streams that have begun
\* iteration and have not yet run their cleanup: every registry key is the
\* connection id of such a stream, so the active_connections count of the
\* health check never exceeds the number of those streams.
C34_RegistryHoldsOnlyRunningStreams ==
    /\ DOMAIN active_connections \subseteq {connection_id[s] : s \in Running}
    /\ HealthCheck(active_connections).active_connections <= Cardinality(Running)

\* One stream was abandoned, another is suspended and has its entry: the
\* health check counts one connection.
C34_Witness ==
    /\ \E s \in Streams : pc[s] = "closed"
    /\ \E q \in Streams : HasLiveEntry(q)
    /\ HealthCheck(active_connections).active_connections = 1

====
